---- MODULE Spec2Model ----
(***************************************************************************)
(* The grid-operator tool-usage dashboard (app.py): the CSV is normalised  *)
(* into a fixed schema once, and every widget change reruns the script,    *)
(* which filters the Dataset and derives the KPI numbers and the chart     *)
(* aggregations from the Filtered view.                                    *)
(*                                                                         *)
(* Text is a TLA+ string; a character is a string of length one.  A frame  *)
(* is [columns |-> sequence of names, rows |-> sequence of rows], a row    *)
(* being the sequence of its cells in column order; a cell is              *)
(* [isna, text], isna marking the reader's missing value (NaN).            *)
(***************************************************************************)
EXTENDS Integers, Sequences, FiniteSets, TLC

\* ------------------------------------------------------------------ text

At(s, i) == SubSeq(s, i, i)

\* The characters str.strip() and the regular expression \s take as blank.
WHITESPACE == {" ", "\t", "\n", "\r"}

RECURSIVE lstrip(_)
lstrip(s) == IF s # "" /\ At(s, 1) \in WHITESPACE THEN lstrip(Tail(s)) ELSE s

RECURSIVE rstrip(_)
rstrip(s) ==
    IF s # "" /\ At(s, Len(s)) \in WHITESPACE
    THEN rstrip(SubSeq(s, 1, Len(s) - 1))
    ELSE s

\* str.strip()
strip(s) == rstrip(lstrip(s))

\* str.lower() of one character: a cased letter goes to its lower case; the
\* sharp s is lower case already and stays.
lower_char(c) ==
    CASE c = "A" -> "a" [] c = "B" -> "b" [] c = "C" -> "c" [] c = "D" -> "d"
      [] c = "E" -> "e" [] c = "F" -> "f" [] c = "G" -> "g" [] c = "H" -> "h"
      [] c = "I" -> "i" [] c = "J" -> "j" [] c = "K" -> "k" [] c = "L" -> "l"
      [] c = "M" -> "m" [] c = "N" -> "n" [] c = "O" -> "o" [] c = "P" -> "p"
      [] c = "Q" -> "q" [] c = "R" -> "r" [] c = "S" -> "s" [] c = "T" -> "t"
      [] c = "U" -> "u" [] c = "V" -> "v" [] c = "W" -> "w" [] c = "X" -> "x"
      [] c = "Y" -> "y" [] c = "Z" -> "z"
      [] OTHER -> c

\* str.upper() of one character: the sharp s has no single upper-case form
\* and becomes "SS" (Unicode SpecialCasing).
upper_char(c) ==
    CASE c = "a" -> "A" [] c = "b" -> "B" [] c = "c" -> "C" [] c = "d" -> "D"
      [] c = "e" -> "E" [] c = "f" -> "F" [] c = "g" -> "G" [] c = "h" -> "H"
      [] c = "i" -> "I" [] c = "j" -> "J" [] c = "k" -> "K" [] c = "l" -> "L"
      [] c = "m" -> "M" [] c = "n" -> "N" [] c = "o" -> "O" [] c = "p" -> "P"
      [] c = "q" -> "Q" [] c = "r" -> "R" [] c = "s" -> "S" [] c = "t" -> "T"
      [] c = "u" -> "U" [] c = "v" -> "V" [] c = "w" -> "W" [] c = "x" -> "X"
      [] c = "y" -> "Y" [] c = "z" -> "Z"
      [] c = "ß" -> "SS"
      [] OTHER -> c

RECURSIVE lower(_)
lower(s) == IF s = "" THEN "" ELSE lower_char(At(s, 1)) \o lower(Tail(s))

RECURSIVE upper(_)
upper(s) == IF s = "" THEN "" ELSE upper_char(At(s, 1)) \o upper(Tail(s))

\* needle in hay
Contains(needle, hay) ==
    \E i \in 0..(Len(hay) - Len(needle)) : SubSeq(hay, i + 1, i + Len(needle)) = needle

\* sep.join(parts)
RECURSIVE Join(_, _)
Join(sep, parts) ==
    IF parts = <<>> THEN ""
    ELSE IF Len(parts) = 1 THEN parts[1]
    ELSE parts[1] \o sep \o Join(sep, Tail(parts))

\* re.sub(r"\s+", "_", s): every maximal run of blanks becomes one underscore.
RECURSIVE sub_blank_runs(_)
sub_blank_runs(s) ==
    IF s = "" THEN ""
    ELSE IF At(s, 1) \in WHITESPACE THEN "_" \o sub_blank_runs(lstrip(s))
    ELSE At(s, 1) \o sub_blank_runs(Tail(s))

\* ---------------------------------------------------------------- frames

Txt(s) == [isna |-> FALSE, text |-> s]
NaN == [isna |-> TRUE, text |-> ""]

Range(seq) == {seq[i] : i \in 1..Len(seq)}

\* The positions of the columns called name.
ColumnPositions(columns, name) == {i \in 1..Len(columns) : columns[i] = name}

\* frame[name] of one row, for a name the frame has once.
Get(frame, row, name) == row[CHOOSE i \in ColumnPositions(frame.columns, name) : TRUE]

EXPECTED_COLUMNS ==
    << "country_label", "institution_name", "official_website", "tool_name",
       "tool_category", "use_case", "evidence_strength", "source_type",
       "source_title", "source_date", "source_link", "exact_snippet_or_quote",
       "why_it_supports_the_claim", "notes" >>

normalize_columns(cols) == [i \in 1..Len(cols) |-> sub_blank_runs(strip(cols[i]))]

\* No file at the path.
NoFile == [columns |-> <<"?">>, rows |-> <<>>, exists |-> FALSE]

\* load_csv on what pd.read_csv(dtype=str) hands back.  The result is
\* [error, frame]: error is "" and frame the Dataset, or error names the
\* exception and there is no Dataset.
load_csv(raw) ==
    IF ~ raw.exists THEN [error |-> "FileNotFoundError", frame |-> NoFile]
    ELSE
    LET cols == normalize_columns(raw.columns)
        absent == SelectSeq(EXPECTED_COLUMNS, LAMBDA c : c \notin Range(cols))
        columns == cols \o absent
        filled == [r \in 1..Len(raw.rows) |->
                      raw.rows[r] \o [k \in 1..Len(absent) |-> Txt("")]]
        expected == {i \in 1..Len(columns) : columns[i] \in Range(EXPECTED_COLUMNS)}
        \* df[c] of a name held twice is a frame, which has no .str
        twice == \E c \in Range(EXPECTED_COLUMNS) :
                    Cardinality(ColumnPositions(columns, c)) > 1
        clean(cell) == Txt(strip(IF cell.isna THEN "" ELSE cell.text))
    IN  IF twice THEN [error |-> "AttributeError", frame |-> NoFile]
        ELSE [error |-> "",
              frame |-> [columns |-> columns,
                         rows |-> [r \in 1..Len(filled) |->
                                     [i \in 1..Len(columns) |->
                                        IF i \in expected THEN clean(filled[r][i])
                                        ELSE filled[r][i]]]]]

\* uniq_sorted(df[name]): the distinct non-blank values (their order, by
\* lower-cased text, only orders the choices of a select box).
uniq_sorted(frame, name) ==
    {Get(frame, frame.rows[r], name).text : r \in 1..Len(frame.rows)}
        \ {v \in {Get(frame, frame.rows[r], name).text : r \in 1..Len(frame.rows)} :
              strip(v) = ""}

\* contains_text_row(row, needle)
contains_text_row(frame, row, needle) ==
    IF needle = "" THEN TRUE
    ELSE LET needle_l == lower(needle)
             hay == lower(Join(" | ",
                       [k \in 1..Len(EXPECTED_COLUMNS) |->
                          Get(frame, row, EXPECTED_COLUMNS[k]).text]))
         IN  Contains(needle_l, hay)

\* ------------------------------------------------------- filter pipeline

Min(a, b) == IF a < b THEN a ELSE b

\* filter_eq comparing without regard to case.
filter_eq_ignoring_case(frame, name, value) ==
    [frame EXCEPT !.rows =
        SelectSeq(frame.rows, LAMBDA row : lower(Get(frame, row, name).text) = lower(value))]

\* f[f[name] == value]
filter_eq(frame, name, value) ==
    [frame EXCEPT !.rows =
        SelectSeq(frame.rows, LAMBDA row : Get(frame, row, name) = Txt(value))]

\* filter_text returning the matching rows lower-cased, as the haystack is.
filter_text_lowered(frame, needle) ==
    IF frame.rows = <<>> THEN [frame EXCEPT !.columns = <<>>]
    ELSE [frame EXCEPT !.rows =
            [r \in 1..Len(SelectSeq(frame.rows,
                                     LAMBDA row : contains_text_row(frame, row, needle))) |->
               [i \in 1..Len(frame.columns) |->
                  LET cell == SelectSeq(frame.rows,
                                  LAMBDA row : contains_text_row(frame, row, needle))[r][i]
                  IN  [cell EXCEPT !.text = lower(cell.text)]]]]

\* f[f.apply(lambda r: contains_text_row(r, needle), axis=1)].  On a frame
\* with rows the mask is boolean and selects rows.  On a frame without rows
\* DataFrame.apply returns an empty non-boolean Series, and indexing with it
\* selects columns, none of them: the result has no columns at all.
filter_text(frame, needle) ==
    IF frame.rows = <<>> THEN [frame EXCEPT !.columns = <<>>]
    ELSE [frame EXCEPT !.rows =
            SelectSeq(frame.rows, LAMBDA row : contains_text_row(frame, row, needle))]

\* apply_filters testing and passing on the query as typed, untrimmed.
apply_filters_untrimmed(df, country, category, evidence, source_type, query) ==
    LET f0 == df
        f1 == IF country # "All" THEN filter_eq(f0, "country_label", country) ELSE f0
        f2 == IF category # "All" THEN filter_eq(f1, "tool_category", category) ELSE f1
        f3 == IF evidence # "All" THEN filter_eq(f2, "evidence_strength", evidence) ELSE f2
        f4 == IF source_type # "All" THEN filter_eq(f3, "source_type", source_type) ELSE f3
    IN  IF query # "" THEN filter_text(f4, query) ELSE f4

\* "Apply filters": the Filtered view f of the Dataset df.
apply_filters(df, country, category, evidence, source_type, query) ==
    LET f0 == df
        f1 == IF country # "All" THEN filter_eq(f0, "country_label", country) ELSE f0
        f2 == IF category # "All" THEN filter_eq(f1, "tool_category", category) ELSE f1
        f3 == IF evidence # "All" THEN filter_eq(f2, "evidence_strength", evidence) ELSE f2
        f4 == IF source_type # "All" THEN filter_eq(f3, "source_type", source_type) ELSE f3
    IN  IF strip(query) # "" THEN filter_text(f4, strip(query)) ELSE f4

\* ----------------------------------------------------------- aggregations

\* frame[name] as the sequence of its texts.
Column(frame, name) == [r \in 1..Len(frame.rows) |-> Get(frame, frame.rows[r], name).text]

\* The distinct values of a sequence, in the order they are first met.
RECURSIVE unique(_)
unique(s) ==
    IF s = <<>> THEN <<>>
    ELSE <<s[1]>> \o unique(SelectSeq(Tail(s), LAMBDA x : x # s[1]))

\* sort_desc taking, among equal counts, the pair met last first.
RECURSIVE sort_desc_last_first(_)
sort_desc_last_first(pairs) ==
    IF pairs = <<>> THEN <<>>
    ELSE LET top == CHOOSE i \in 1..Len(pairs) :
                       /\ \A j \in 1..Len(pairs) : pairs[j][2] <= pairs[i][2]
                       /\ \A j \in (i + 1)..Len(pairs) : pairs[j][2] < pairs[i][2]
         IN  <<pairs[top]>> \o
             sort_desc_last_first([k \in 1..(Len(pairs) - 1) |->
                                     IF k < top THEN pairs[k] ELSE pairs[k + 1]])

\* Stable sort of <<label, count>> pairs by descending count.
RECURSIVE sort_desc(_)
sort_desc(pairs) ==
    IF pairs = <<>> THEN <<>>
    ELSE LET top == CHOOSE i \in 1..Len(pairs) :
                       /\ \A j \in 1..Len(pairs) : pairs[j][2] <= pairs[i][2]
                       /\ \A j \in 1..(i - 1) : pairs[j][2] < pairs[i][2]
         IN  <<pairs[top]>> \o
             sort_desc([k \in 1..(Len(pairs) - 1) |->
                          IF k < top THEN pairs[k] ELSE pairs[k + 1]])

\* Series.value_counts(): <<value, count>>, most frequent first, values of
\* equal count in the order they are first met.
value_counts(s) ==
    LET u == unique(s)
    IN  sort_desc([i \in 1..Len(u) |->
                     <<u[i], Len(SelectSeq(s, LAMBDA x : x = u[i]))>>])

\* .head(n)
head(s, n) == SubSeq(s, 1, Min(n, Len(s)))

\* series.replace("", pd.NA).dropna()
drop_empty(s) == SelectSeq(s, LAMBDA x : x # "")

\* series.replace("", pd.NA).dropna().nunique()
nunique_non_empty(frame, name) == Cardinality(Range(drop_empty(Column(frame, name))))

\* tool_counts_of without .head(top_n).
tool_counts_untruncated(f, n, include_unknown) ==
    LET tool_series == Column(f, "tool_name")
        kept == IF include_unknown
                THEN [i \in 1..Len(tool_series) |->
                        IF tool_series[i] = "" THEN "Unknown" ELSE tool_series[i]]
                ELSE SelectSeq(tool_series, LAMBDA x : strip(x) # "")
    IN  value_counts(kept)

\* The tool distribution of tab 1.
tool_counts_of(f, n, include_unknown) ==
    LET tool_series == Column(f, "tool_name")
        kept == IF include_unknown
                THEN [i \in 1..Len(tool_series) |->
                        IF tool_series[i] = "" THEN "Unknown" ELSE tool_series[i]]
                ELSE SelectSeq(tool_series, LAMBDA x : strip(x) # "")
    IN  head(value_counts(kept), n)

\* f.groupby("country_label").size(), as the mapping from key to row count.
group_size(f) ==
    [k \in Range(Column(f, "country_label")) |->
        Cardinality({r \in 1..Len(f.rows) : Column(f, "country_label")[r] = k})]

\* f.groupby("country_label")["tool_name"].nunique(): the distinct tool_name
\* values of the group; nunique leaves out NaN only, and the loaded Dataset
\* holds "" where a value is absent.
group_nunique(f) ==
    [k \in Range(Column(f, "country_label")) |->
        Cardinality({Column(f, "tool_name")[r] :
                        r \in {q \in 1..Len(f.rows) : Column(f, "country_label")[q] = k}})]

Restrict(fn, keys) == [k \in keys |-> fn[k]]

\* The map frame of tab 2, without the rows of a blank country_label.
map_df_of(f, metric) ==
    LET grouped == IF metric = "Total Records" THEN group_size(f) ELSE group_nunique(f)
    IN  Restrict(grouped, {k \in DOMAIN grouped : strip(k) # ""})

\* The category and evidence-strength breakdowns of tab 3.
breakdown(f, name) == value_counts(drop_empty(Column(f, name)))

TOP_INSTITUTIONS == 25

\* The top institutions of tab 4.
inst_counts_of(f) == head(value_counts(drop_empty(Column(f, "institution_name"))), TOP_INSTITUTIONS)

\* ------------------------------------------------------ the frames of a run

\* The one element of a set of one element.
Only(S) == CHOOSE x \in S : TRUE

\* The frames a run builds are objects: heap is the sequence of them and a
\* name of the script holds a position in it.  frame.copy() makes a new
\* object of the same content.
copy_aliased(heap, ref) == [heap |-> heap, ref |-> ref]

copy(heap, ref) == [heap |-> Append(heap, heap[ref]), ref |-> Len(heap) + 1]

\* Whether lines 328-339 bind f to a new frame: each filter that applies
\* indexes f by a mask, which builds a frame.
rebinds(country, category, evidence, source_type, query) ==
    \/ country # "All"
    \/ category # "All"
    \/ evidence # "All"
    \/ source_type # "All"
    \/ strip(query) # ""

StartsWith(prefix, s) == Len(s) >= Len(prefix) /\ SubSeq(s, 1, Len(prefix)) = prefix

\* safe_url(url): re.match(r"^https?://", url, flags=re.I)
safe_url(url) ==
    LET u == strip(url)
    IN  IF u = "" THEN ""
        ELSE IF StartsWith("http://", lower(u)) \/ StartsWith("https://", lower(u))
             THEN u
             ELSE "https://" \o u

\* as_link(url, label)
as_link(url, label) == IF url = "" THEN "" ELSE "[" \o label \o "](" \o url \o ")"

\* frame[name].apply(safe_url)
apply_safe_url(frame, name) ==
    [r \in 1..Len(frame.rows) |-> Txt(safe_url(Get(frame, frame.rows[r], name).text))]

\* frame[name].apply(lambda u: as_link(u, label))
apply_as_link(frame, name, label) ==
    [r \in 1..Len(frame.rows) |-> Txt(as_link(Get(frame, frame.rows[r], name).text, label))]

\* frame[name] = series, on the object at ref: the column is written in
\* place, the other objects of the heap stay.
assign(heap, ref, name, series) ==
    LET at == ColumnPositions(heap[ref].columns, name)
    IN  [heap EXCEPT ![ref].rows =
            [r \in 1..Len(@) |->
                [i \in 1..Len(@[r]) |-> IF i \in at THEN series[r] ELSE @[r][i]]]]

\* The columns the table offers, in the order of line 673.
DISPLAY_COLS ==
    <<"country_label", "institution_name", "tool_name", "tool_category", "use_case",
      "evidence_strength", "source_type", "source_title", "source_date", "source_link",
      "official_website", "notes">>

DEFAULT_SHOWN == 10

display_cols_of(frame) == SelectSeq(DISPLAY_COLS, LAMBDA c : c \in Range(frame.columns))

\* frame[names]: a new frame of the named columns, in the order of names.
take_columns(frame, names) ==
    [columns |-> names,
     rows |-> [r \in 1..Len(frame.rows) |->
                 [k \in 1..Len(names) |-> Get(frame, frame.rows[r], names[k])]]]

\* Tab 5 on the heap: display (lines 669-671), table_df (695-701).
table_of(heap, f_ref, chosen_cols) ==
    Only({
        Only({
            Only({
                [heap |-> IF "official_website" \in Range(chosen_cols)
                          THEN assign(sourced, table_df.ref, "official_website",
                                      apply_as_link(sourced[table_df.ref],
                                                    "official_website", "Website"))
                          ELSE sourced,
                 display |-> display.ref,
                 table_df |-> table_df.ref] :
                sourced \in
                    {IF "source_link" \in Range(chosen_cols)
                     THEN assign(table_df.heap, table_df.ref, "source_link",
                                 apply_as_link(table_df.heap[table_df.ref],
                                               "source_link", "Source"))
                     ELSE table_df.heap} }) :
            table_df \in
                {copy(Append(urls, take_columns(urls[display.ref], chosen_cols)),
                      Len(urls) + 1) :
                    urls \in
                        {assign(websites, display.ref, "source_link",
                                apply_safe_url(websites[display.ref], "source_link")) :
                            websites \in
                                {assign(display.heap, display.ref, "official_website",
                                        apply_safe_url(display.heap[display.ref],
                                                       "official_website"))}}} }) :
        display \in {copy(heap, f_ref)} })

\* One field of a CSV line: quoted when it holds the separator, a quote or a
\* line break, with its quotes doubled.
RECURSIVE double_quotes(_)
double_quotes(s) ==
    IF s = "" THEN ""
    ELSE (IF At(s, 1) = "\"" THEN "\"\"" ELSE At(s, 1)) \o double_quotes(Tail(s))

csv_field(cell) ==
    IF cell.isna THEN ""
    ELSE IF Contains(",", cell.text) \/ Contains("\"", cell.text)
            \/ Contains("\n", cell.text) \/ Contains("\r", cell.text)
         THEN "\"" \o double_quotes(cell.text) \o "\""
         ELSE cell.text

\* frame.to_csv(index=False): the header line, then one line per row.
to_csv(frame) ==
    Join(",", frame.columns) \o "\n" \o
    Join("", [r \in 1..Len(frame.rows) |->
                 Join(",", [i \in 1..Len(frame.columns) |-> csv_field(frame.rows[r][i])])
                 \o "\n"])

\* ------------------------------------------------------------ one script run

\* The slider of the top N: its least and its first value.
TOP_N_MIN == 5
TOP_N_DEFAULT == 20

\* Lines 326-339 on the heap: f = df.copy(), then the filters.  What f holds
\* is what apply_filters makes of df; the object is a new one where a filter
\* applied, and the copy of line 326 where none did.
filter_step(df, country, category, evidence, source_type, query) ==
    Only({
        IF rebinds(country, category, evidence, source_type, query)
        THEN [heap |-> Append(start.heap, f), ref |-> Len(start.heap) + 1]
        ELSE [heap |-> [start.heap EXCEPT ![start.ref] = f], ref |-> start.ref] :
        start \in {copy(<<df>>, 1)},
        f \in {apply_filters(df, country, category, evidence, source_type, query)} })

\* Everything one run of the script derives, from line 326 on.  The KPI lines
\* read f["country_label"] first: on a view that lost its columns that is a
\* KeyError, the run ends there and shows the exception.  df in the result is
\* the frame the name df holds when the run ends.
run_script(df, country, category, evidence, source_type, query, n, include_unknown, metric, chosen_cols) ==
    Only({
        IF "country_label" \notin Range(filtered.heap[filtered.ref].columns)
        THEN [f |-> filtered.heap[filtered.ref], error |-> "KeyError",
              unique_countries |-> 0, unique_institutions |-> 0, unique_tools |-> 0,
              tool_counts |-> <<>>, map_df |-> [k \in {} |-> 0],
              cat_counts |-> <<>>, ev_counts |-> <<>>, inst_counts |-> <<>>,
              df |-> filtered.heap[1], display |-> NoFile, table_df |-> NoFile,
              csv |-> "",
              rendered |-> {"exception"}]
        ELSE
        Only({
            LET f == filtered.heap[filtered.ref]
            IN  [f |-> tab5.heap[filtered.ref], error |-> "",
                 unique_countries |-> nunique_non_empty(f, "country_label"),
                 unique_institutions |-> nunique_non_empty(f, "institution_name"),
                 unique_tools |-> nunique_non_empty(f, "tool_name"),
                 tool_counts |-> tool_counts, map_df |-> map_df,
                 cat_counts |-> cat_counts, ev_counts |-> ev_counts,
                 inst_counts |-> inst_counts,
                 df |-> tab5.heap[1],
                 display |-> tab5.heap[tab5.display],
                 table_df |-> tab5.heap[tab5.table_df],
                 csv |-> to_csv(tab5.heap[filtered.ref]),
                 rendered |->
                    {"kpi", "table", "download"}
                    \cup (IF tool_counts # <<>> THEN {"tool_chart"} ELSE {"tool_info"})
                    \cup (IF DOMAIN map_df = {} THEN {"map_info"} ELSE {"map_chart"})
                    \cup (IF cat_counts # <<>> THEN {"category_pie"} ELSE {})
                    \cup (IF ev_counts # <<>> THEN {"evidence_bar"} ELSE {})
                    \cup (IF inst_counts = <<>> THEN {"inst_info"} ELSE {"inst_chart"})] :
            tool_counts \in {tool_counts_of(filtered.heap[filtered.ref], n, include_unknown)},
            map_df \in {map_df_of(filtered.heap[filtered.ref], metric)},
            cat_counts \in {breakdown(filtered.heap[filtered.ref], "tool_category")},
            ev_counts \in {breakdown(filtered.heap[filtered.ref], "evidence_strength")},
            inst_counts \in {inst_counts_of(filtered.heap[filtered.ref])},
            tab5 \in {table_of(filtered.heap, filtered.ref, chosen_cols)} }) :
        filtered \in {filter_step(df, country, category, evidence, source_type, query)} })

\* ------------------------------------------------------------------ inputs

MaxRows == 2

RawFile(columns, rows) == [columns |-> columns, rows |-> rows, exists |-> TRUE]

\* Files of up to MaxRows different rows of RowPool under one header.
PoolHeader == <<" country_label", "tool  name", "tool_category ", "Region Code">>

RowPool ==
    { <<Txt("France"), Txt(" PLEXOS "), Txt("market"), NaN>>,
      <<Txt("France"), NaN, Txt("grid"), Txt(" EU ")>>,
      <<NaN, Txt("Maß"), NaN, Txt("EU")>> }

RECURSIVE RowSeqs(_)
RowSeqs(n) ==
    IF n = 0 THEN {<<>>}
    ELSE RowSeqs(n - 1) \cup
         UNION {{Append(rows, row) : row \in RowPool \ Range(rows)} :
                   rows \in {x \in RowSeqs(n - 1) : Len(x) = n - 1}}

PoolFiles == {RawFile(PoolHeader, rows) : rows \in RowSeqs(MaxRows)}

\* Three records, the second without a tool name.
ScenarioFile ==
    RawFile(<<"country_label", "tool_name">>,
            << <<Txt("France"), Txt("PLEXOS")>>,
               <<Txt("France"), NaN>>,
               <<Txt("Germany"), Txt("PyPSA")>> >>)

\* More distinct tools than the smallest top N.
ManyToolsFile ==
    RawFile(<<"institution_name", "tool_name">>,
            << <<Txt("TSO"), Txt("A")>>, <<Txt("TSO"), Txt("B")>>, <<Txt("ISO"), Txt("B")>>,
               <<Txt("ISO"), Txt("C")>>, <<Txt("ISO"), Txt("D")>>, <<Txt("ISO"), Txt("E")>>,
               <<NaN, Txt("F")>> >>)

\* All four categorical columns; the evidence strengths differ in case only.
FourFiltersFile ==
    RawFile(<<"country_label", "tool_category", "evidence_strength", "source_type", "use_case">>,
            << <<Txt("France"), Txt("market"), Txt("Strong"), Txt("report"), Txt("Balancing services")>>,
               <<Txt("France"), Txt("market"), Txt("strong"), Txt("report"), NaN>>,
               <<Txt("Germany"), Txt("market"), Txt("Strong"), NaN, Txt("dispatch")>> >>)

\* Addresses with and without a scheme, one blank.
LinksFile ==
    RawFile(<<"country_label", "official_website", "source_link", "notes">>,
            << <<Txt("France"), Txt("rte-france.com"), Txt("HTTPS://example.org/a"), Txt("a, \"b\"")>>,
               <<Txt("Germany"), NaN, Txt(" http://example.org/b "), NaN>> >>)

\* Two headers that normalise to the same expected name.
TwiceFile == RawFile(<<"tool name", "tool_name">>, << <<Txt("PLEXOS"), Txt("PyPSA")>> >>)

Files ==
    PoolFiles \cup {ScenarioFile, ManyToolsFile, FourFiltersFile, LinksFile, TwiceFile, NoFile}

\* What the user may type into the search box.
Queries == {"", " \t", " plexos ", "|", "ß"}

TopNChoices == {TOP_N_MIN, TOP_N_DEFAULT}

MapMetrics == {"Total Records", "Unique Tools"}

\* What the user may pick in the table: the default, or every column offered.
ColumnChoices == {SubSeq(DISPLAY_COLS, 1, DEFAULT_SHOWN), DISPLAY_COLS}

\* ------------------------------------------------------------------- state

VARIABLES
    file,                   \* what the reader found at csv_path
    df,                     \* the Dataset (load_csv's cached result)
    load_error,             \* the exception of load_csv, "" without one
    sel_country, sel_category, sel_evidence, sel_source_type,
    text_query, top_n, include_unknown_tools, map_metric,
    chosen_cols,            \* the columns picked for the table
    f,                      \* the Filtered view
    error,                  \* the exception that ended the last run, "" without one
    unique_countries, unique_institutions, unique_tools,
    tool_counts, map_df, cat_counts, ev_counts, inst_counts,
    df_end,                 \* what the name df holds when the last run ends
    display, table_df,      \* the frames of tab 5
    csv,                    \* the text of the download
    rendered                \* what the last run put on the page

widgets ==
    <<sel_country, sel_category, sel_evidence, sel_source_type,
      text_query, top_n, include_unknown_tools, map_metric, chosen_cols>>

outputs ==
    <<f, error, unique_countries, unique_institutions, unique_tools,
      tool_counts, map_df, cat_counts, ev_counts, inst_counts,
      df_end, display, table_df, csv, rendered>>

vars == <<file, df, load_error, widgets, outputs>>

\* The batch script scripts/investigate_usage.py, a program of its own.
VARIABLES
    operators,              \* the rows of grid_operators.csv
    position,               \* the row the loop stands at
    pc,                     \* where the script stands
    prompt,                 \* the prompt of the last request
    content,                \* the content of the last response
    received,               \* the contents of all responses so far, in order
    results,                \* the parsed responses
    printed,                \* the lines printed
    saved                   \* esm_usage_results.csv

batch_vars == <<operators, position, pc, prompt, content, received, results, printed, saved>>

NoContent == [isnone |-> TRUE, text |-> ""]

NotSaved == [exists |-> FALSE, text |-> ""]

\* The batch script is not running.
BatchIdle ==
    /\ operators = <<>>
    /\ position = 1
    /\ pc = "idle"
    /\ prompt = ""
    /\ content = NoContent
    /\ received = <<>>
    /\ results = <<>>
    /\ printed = <<>>
    /\ saved = NotSaved

\* One run of the script with the widgets at the given values.
Rerun(country, category, evidence, source_type, query, n, include_unknown, metric, chosen) ==
    \E run \in {run_script(df, country, category, evidence, source_type, query,
                            n, include_unknown, metric, chosen)} :
        /\ sel_country' = country
        /\ sel_category' = category
        /\ sel_evidence' = evidence
        /\ sel_source_type' = source_type
        /\ text_query' = query
        /\ top_n' = n
        /\ include_unknown_tools' = include_unknown
        /\ map_metric' = metric
        /\ chosen_cols' = chosen
        /\ f' = run.f
        /\ error' = run.error
        /\ unique_countries' = run.unique_countries
        /\ unique_institutions' = run.unique_institutions
        /\ unique_tools' = run.unique_tools
        /\ tool_counts' = run.tool_counts
        /\ map_df' = run.map_df
        /\ cat_counts' = run.cat_counts
        /\ ev_counts' = run.ev_counts
        /\ inst_counts' = run.inst_counts
        /\ df_end' = run.df
        /\ display' = run.display
        /\ table_df' = run.table_df
        /\ csv' = run.csv
        /\ rendered' = run.rendered
        /\ UNCHANGED <<file, df, load_error>>
        /\ UNCHANGED batch_vars

\* The first run: the file is loaded and the widgets stand at their defaults.
\* A load that raises is shown as an error and st.stop() ends the script.
FirstRun(loaded) ==
    IF loaded.error = ""
    THEN run_script(loaded.frame, "All", "All", "All", "All", "",
                    TOP_N_DEFAULT, FALSE, "Total Records",
                    SubSeq(display_cols_of(loaded.frame), 1, DEFAULT_SHOWN))
    ELSE [f |-> NoFile, error |-> "",
          unique_countries |-> 0, unique_institutions |-> 0, unique_tools |-> 0,
          tool_counts |-> <<>>, map_df |-> [k \in {} |-> 0],
          cat_counts |-> <<>>, ev_counts |-> <<>>, inst_counts |-> <<>>,
          df |-> NoFile, display |-> NoFile, table_df |-> NoFile, csv |-> "",
          rendered |-> {"load_error"}]

Startup ==
    /\ file \in Files
    /\ \E loaded \in {load_csv(file)} :
          /\ df = loaded.frame
          /\ load_error = loaded.error
          /\ \E run \in {FirstRun(loaded)} :
                /\ f = run.f
                /\ error = run.error
                /\ unique_countries = run.unique_countries
                /\ unique_institutions = run.unique_institutions
                /\ unique_tools = run.unique_tools
                /\ tool_counts = run.tool_counts
                /\ map_df = run.map_df
                /\ cat_counts = run.cat_counts
                /\ ev_counts = run.ev_counts
                /\ inst_counts = run.inst_counts
                /\ df_end = run.df
                /\ display = run.display
                /\ table_df = run.table_df
                /\ csv = run.csv
                /\ rendered = run.rendered
    /\ sel_country = "All"
    /\ sel_category = "All"
    /\ sel_evidence = "All"
    /\ sel_source_type = "All"
    /\ text_query = ""
    /\ top_n = TOP_N_DEFAULT
    /\ include_unknown_tools = FALSE
    /\ map_metric = "Total Records"
    /\ chosen_cols = IF load_error = ""
                     THEN SubSeq(display_cols_of(df), 1, DEFAULT_SHOWN)
                     ELSE <<>>

\* The dashboard starts; the batch script is not running.
Init == Startup /\ BatchIdle

\* The choices of a select box: "All", then the column's distinct values.
Choices(name) == {"All"} \cup uniq_sorted(df, name)

\* An action is a widget the user changed: the script reruns on a change only.

SelectCountry ==
    /\ load_error = ""
    /\ \E v \in Choices("country_label") \ {sel_country} :
          Rerun(v, sel_category, sel_evidence, sel_source_type, text_query,
                top_n, include_unknown_tools, map_metric, chosen_cols)

SelectCategory ==
    /\ load_error = ""
    /\ \E v \in Choices("tool_category") \ {sel_category} :
          Rerun(sel_country, v, sel_evidence, sel_source_type, text_query,
                top_n, include_unknown_tools, map_metric, chosen_cols)

SelectEvidence ==
    /\ load_error = ""
    /\ \E v \in Choices("evidence_strength") \ {sel_evidence} :
          Rerun(sel_country, sel_category, v, sel_source_type, text_query,
                top_n, include_unknown_tools, map_metric, chosen_cols)

SelectSourceType ==
    /\ load_error = ""
    /\ \E v \in Choices("source_type") \ {sel_source_type} :
          Rerun(sel_country, sel_category, sel_evidence, v, text_query,
                top_n, include_unknown_tools, map_metric, chosen_cols)

EnterTextQuery ==
    /\ load_error = ""
    /\ \E q \in Queries \ {text_query} :
          Rerun(sel_country, sel_category, sel_evidence, sel_source_type, q,
                top_n, include_unknown_tools, map_metric, chosen_cols)

SlideTopN ==
    /\ load_error = ""
    /\ \E n \in TopNChoices \ {top_n} :
          Rerun(sel_country, sel_category, sel_evidence, sel_source_type, text_query,
                n, include_unknown_tools, map_metric, chosen_cols)

ToggleIncludeUnknown ==
    /\ load_error = ""
    /\ Rerun(sel_country, sel_category, sel_evidence, sel_source_type, text_query,
             top_n, ~ include_unknown_tools, map_metric, chosen_cols)

\* The metric menu stands in tab 2, which a run ended by an exception never
\* reaches.
ChooseMapMetric ==
    /\ load_error = ""
    /\ error = ""
    /\ \E m \in MapMetrics \ {map_metric} :
          Rerun(sel_country, sel_category, sel_evidence, sel_source_type, text_query,
                top_n, include_unknown_tools, m, chosen_cols)

\* The column picker stands in tab 5, the last of the script.
ChooseColumns ==
    /\ load_error = ""
    /\ error = ""
    /\ \E cols \in ColumnChoices \ {chosen_cols} :
          Rerun(sel_country, sel_category, sel_evidence, sel_source_type, text_query,
                top_n, include_unknown_tools, map_metric, cols)

Next ==
    \/ SelectCountry
    \/ SelectCategory
    \/ SelectEvidence
    \/ SelectSourceType
    \/ EnterTextQuery
    \/ SlideTopN
    \/ ToggleIncludeUnknown
    \/ ChooseMapMetric
    \/ ChooseColumns

Spec == Init /\ [][Next]_<<vars, batch_vars>>

\* ------------------------------------------------------------ json.loads

\* A parsed JSON value.  kind is "object", "string", "number" or "literal";
\* an object holds its members as <<key, value>> pairs in the order met.
JString(t) == [kind |-> "string", text |-> t, members |-> <<>>]

JNumber(t) == [kind |-> "number", text |-> t, members |-> <<>>]

JLiteral(t) == [kind |-> "literal", text |-> t, members |-> <<>>]

JObject(m) == [kind |-> "object", text |-> "", members |-> m]

Parsed(v, rest) == [ok |-> TRUE, value |-> v, rest |-> rest]

NotParsed == [ok |-> FALSE, value |-> JLiteral("null"), rest |-> ""]

DIGITS == {"0", "1", "2", "3", "4", "5", "6", "7", "8", "9"}

\* The length of the string body that s starts with, up to its closing quote;
\* -1 where the body does not close or holds a backslash or a line break.
RECURSIVE string_body(_, _)
string_body(s, k) ==
    IF k > Len(s) THEN 0 - 1
    ELSE IF At(s, k) = "\"" THEN k - 1
    ELSE IF At(s, k) \in {"\\", "\n", "\r", "\t"} THEN 0 - 1
    ELSE string_body(s, k + 1)

\* s starts with a quote.
parse_string(s) ==
    LET n == string_body(Tail(s), 1)
    IN  IF n < 0 THEN NotParsed
        ELSE Parsed(JString(SubSeq(s, 2, n + 1)), SubSeq(s, n + 3, Len(s)))

RECURSIVE digits_of(_, _)
digits_of(s, k) == IF k <= Len(s) /\ At(s, k) \in DIGITS THEN digits_of(s, k + 1) ELSE k - 1

\* s starts with a digit: 0, or a run of digits that starts with none.
parse_number(s) ==
    LET n == IF At(s, 1) = "0" THEN 1 ELSE digits_of(s, 1)
    IN  Parsed(JNumber(SubSeq(s, 1, n)), SubSeq(s, n + 1, Len(s)))

\* dict[key] = value: a key met again keeps its place and takes the value.
put(members, key, value) ==
    IF \E k \in 1..Len(members) : members[k][1] = key
    THEN [k \in 1..Len(members) |->
             IF members[k][1] = key THEN <<key, value>> ELSE members[k]]
    ELSE Append(members, <<key, value>>)

RECURSIVE parse_value(_)
RECURSIVE parse_members(_, _)

\* The value s starts with, s without leading blanks.  The texts parsed here
\* hold no array, sign, fraction, exponent or escape.
parse_value(s) ==
    IF s = "" THEN NotParsed
    ELSE IF At(s, 1) = "\"" THEN parse_string(s)
    ELSE IF At(s, 1) \in DIGITS THEN parse_number(s)
    ELSE IF StartsWith("null", s) THEN Parsed(JLiteral("null"), SubSeq(s, 5, Len(s)))
    ELSE IF StartsWith("true", s) THEN Parsed(JLiteral("true"), SubSeq(s, 5, Len(s)))
    ELSE IF StartsWith("false", s) THEN Parsed(JLiteral("false"), SubSeq(s, 6, Len(s)))
    ELSE IF At(s, 1) = "{"
         THEN IF StartsWith("}", lstrip(Tail(s)))
              THEN Parsed(JObject(<<>>), Tail(lstrip(Tail(s))))
              ELSE parse_members(lstrip(Tail(s)), <<>>)
    ELSE NotParsed

\* The members of an object from s on, after the members met so far.
parse_members(s, met) ==
    IF ~ StartsWith("\"", s) THEN NotParsed
    ELSE
    Only({
        IF ~ key.ok \/ ~ StartsWith(":", lstrip(key.rest)) THEN NotParsed
        ELSE
        Only({
            IF ~ val.ok THEN NotParsed
            ELSE IF StartsWith(",", lstrip(val.rest))
                 THEN parse_members(lstrip(Tail(lstrip(val.rest))),
                                    put(met, key.value.text, val.value))
            ELSE IF StartsWith("}", lstrip(val.rest))
                 THEN Parsed(JObject(put(met, key.value.text, val.value)),
                             Tail(lstrip(val.rest)))
            ELSE NotParsed :
            val \in {parse_value(lstrip(Tail(lstrip(key.rest))))} }) :
        key \in {parse_string(s)} })

\* json.loads(content): [error, value].  None raises TypeError; a text that
\* is no JSON value, or goes on after one, raises JSONDecodeError.
json_loads(c) ==
    IF c.isnone THEN [error |-> "TypeError", value |-> JLiteral("null")]
    ELSE
    Only({
        IF v.ok /\ lstrip(v.rest) = ""
        THEN [error |-> "", value |-> v.value]
        ELSE [error |-> "JSONDecodeError", value |-> JLiteral("null")] :
        v \in {parse_value(lstrip(c.text))} })

\* ------------------------------------------------------- the batch script

\* build_prompt(org_name, website, country, model_list)
build_prompt(org_name, website, country, model_list) ==
    "\nYou are an energy systems research analyst.\n\n"
    \o "Investigate whether the following organisation uses any proprietary energy system modeling frameworks.\n\n"
    \o "Organisation: " \o org_name \o "\n"
    \o "Country: " \o country \o "\n"
    \o "Website: " \o website \o "\n\n"
    \o "Only consider the following licensed model frameworks:\n\n"
    \o Join("\n", [k \in 1..Len(model_list) |-> "- " \o model_list[k]]) \o "\n\n"
    \o "Instructions:\n"
    \o "- Use official website and public reports.\n"
    \o "- Only include confirmed evidence.\n"
    \o "- Provide reference URLs.\n"
    \o "- Do NOT guess.\n"
    \o "- If no evidence found, state clearly.\n\n"
    \o "Return ONLY valid JSON:\n\n"
    \o "{\n"
    \o "  \"organisation\": \"\",\n"
    \o "  \"country\": \"\",\n"
    \o "  \"used_model_framework\": \"\",\n"
    \o "  \"use_case\": \"\",\n"
    \o "  \"reference_url\": \"\",\n"
    \o "  \"confidence\": \"High/Medium/Low\"\n"
    \o "}\n"

\* The keys of a list of objects, each once, in the order met.
RECURSIVE keys_met(_, _)
keys_met(objects, met) ==
    IF objects = <<>> THEN met
    ELSE keys_met(Tail(objects),
                  met \o SelectSeq([k \in 1..Len(objects[1].members) |->
                                       objects[1].members[k][1]],
                                   LAMBDA key : key \notin Range(met)))

Present(v) == [isna |-> FALSE, value |-> v]

Missing == [isna |-> TRUE, value |-> JLiteral("null")]

\* object[key], or a missing cell
member(object, key) ==
    IF \E k \in 1..Len(object.members) : object.members[k][1] = key
    THEN Present(object.members[CHOOSE k \in 1..Len(object.members) :
                                   object.members[k][1] = key][2])
    ELSE Missing

\* pandas.DataFrame(results): [error, columns, rows].  Under a first element
\* that is a dict every element is asked for its keys(), which a number or a
\* text has not; under a first element that is none the list is one column.
DataFrame(list) ==
    IF list = <<>> THEN [error |-> "", columns |-> <<>>, rows |-> <<>>]
    ELSE IF list[1].kind # "object"
    THEN [error |-> "", columns |-> <<"0">>,
          rows |-> [k \in 1..Len(list) |-> <<Present(list[k])>>]]
    ELSE IF \E k \in 1..Len(list) : list[k].kind # "object"
    THEN [error |-> "AttributeError", columns |-> <<>>, rows |-> <<>>]
    ELSE
    Only({
        [error |-> "", columns |-> columns,
         rows |-> [k \in 1..Len(list) |->
                     [c \in 1..Len(columns) |-> member(list[k], columns[c])]]] :
        columns \in {keys_met(list, <<>>)} })

\* repr(v) of a parsed value, as str(dict) shows it.
RECURSIVE py_repr(_)
py_repr(v) ==
    CASE v.kind = "string" -> "'" \o v.text \o "'"
      [] v.kind = "number" -> v.text
      [] v.kind = "literal" ->
            (IF v.text = "null" THEN "None" ELSE IF v.text = "true" THEN "True" ELSE "False")
      [] v.kind = "object" ->
            "{" \o Join(", ", [k \in 1..Len(v.members) |->
                                 "'" \o v.members[k][1] \o "': " \o py_repr(v.members[k][2])])
            \o "}"

\* The cell as to_csv writes it: None and a missing value as nothing.
csv_cell(cell) ==
    IF cell.isna \/ cell.value = JLiteral("null") THEN NaN
    ELSE IF cell.value.kind = "string" THEN Txt(cell.value.text)
    ELSE Txt(py_repr(cell.value))

\* output.to_csv(path, index=False)
output_csv(output) ==
    to_csv([columns |-> output.columns,
            rows |-> [r \in 1..Len(output.rows) |->
                        [c \in 1..Len(output.columns) |-> csv_cell(output.rows[r][c])]]])

\* closed_source_ESM_frameworks.csv, column Name
model_list == <<"PLEXOS", "PROMOD">>

MaxOrgs == 3

Operator(organisation, website, country) ==
    [organisation |-> organisation, website |-> website, country |-> country]

OperatorPool ==
    { Operator("RTE", "rte-france.com", "France"),
      Operator("TenneT", "tennet.eu", "Netherlands") }

RECURSIVE OperatorSeqs(_)
OperatorSeqs(n) ==
    IF n = 0 THEN {<<>>}
    ELSE OperatorSeqs(n - 1) \cup
         {Append(rows, row) : rows \in {x \in OperatorSeqs(n - 1) : Len(x) = n - 1},
                               row \in OperatorPool}

Answer(text) == [isnone |-> FALSE, text |-> text]

\* What the model may answer: two objects, prose around an object, a bare
\* number, and a message without content.
Responses ==
    { Answer("{\"organisation\": \"RTE\", \"used_model_framework\": \"PLEXOS\", \"confidence\": \"High\"}"),
      Answer("{\n  \"organisation\": \"TenneT\",\n  \"reference_url\": null\n}\n"),
      Answer("Sure: {\"organisation\": \"RTE\"}"),
      Answer(" 42 "),
      NoContent }

\* The grid operators are read; the dashboard is not running.
BatchInit ==
    /\ file = NoFile
    /\ Startup
    /\ operators \in OperatorSeqs(MaxOrgs)
    /\ position = 1
    /\ pc = "loop"
    /\ prompt = ""
    /\ content = NoContent
    /\ received = <<>>
    /\ results = <<>>
    /\ printed = <<>>
    /\ saved = NotSaved

\* Lines 21-35: the prompt of the row, the request, the content of the answer.
Request ==
    /\ pc = "loop"
    /\ position <= Len(operators)
    /\ prompt' = build_prompt(operators[position].organisation,
                              operators[position].website,
                              operators[position].country, model_list)
    /\ \E c \in Responses :
          /\ content' = c
          /\ received' = Append(received, c)
    /\ pc' = "parse"
    /\ UNCHANGED <<operators, position, results, printed, saved>>
    /\ UNCHANGED vars

\* Lines 37-41: the parsed content joins results; any exception of json.loads
\* is caught and a warning printed (here without its leading sign).  The loop
\* goes on to the next row.
Parse ==
    /\ pc = "parse"
    /\ \E loaded \in {json_loads(content)} :
          IF loaded.error = ""
          THEN /\ results' = Append(results, loaded.value)
               /\ UNCHANGED printed
          ELSE /\ printed' = Append(printed, "JSON parse failed for "
                                               \o operators[position].organisation)
               /\ UNCHANGED results
    /\ position' = position + 1
    /\ pc' = "loop"
    /\ UNCHANGED <<operators, prompt, content, received, saved>>
    /\ UNCHANGED vars

\* Lines 42-43, after the last row: the frame of results is written.  An
\* exception of pandas.DataFrame ends the script there.
Save ==
    /\ pc = "loop"
    /\ position > Len(operators)
    /\ \E output \in {DataFrame(results)} :
          IF output.error = ""
          THEN /\ saved' = [exists |-> TRUE, text |-> output_csv(output)]
               /\ pc' = "saved"
          ELSE /\ pc' = "crashed"
               /\ UNCHANGED saved
    /\ UNCHANGED <<operators, position, prompt, content, received, results, printed>>
    /\ UNCHANGED vars

\* Line 45 (the line printed, without its leading sign)
Finish ==
    /\ pc = "saved"
    /\ printed' = Append(printed, "Investigation completed.")
    /\ pc' = "done"
    /\ UNCHANGED <<operators, position, prompt, content, received, results, saved>>
    /\ UNCHANGED vars

BatchNext ==
    \/ Request
    \/ Parse
    \/ Save
    \/ Finish

BatchSpec == BatchInit /\ [][BatchNext]_<<vars, batch_vars>>

\* ------------------------------------------------------------------ claims

Loaded == load_error = ""

\* The last run went through: f has its columns and the aggregations exist.
Ran == Loaded /\ error = ""

Field(row, name) == Get(df, row, name).text

\* The haystack of a record: its 14 expected fields joined by " | ".
Haystack(row) == Join(" | ", [k \in 1..Len(EXPECTED_COLUMNS) |-> Field(row, EXPECTED_COLUMNS[k])])

\* The free-text predicate, on the query without its surrounding blanks.
TextPredicate(row) ==
    strip(text_query) = "" \/ Contains(lower(strip(text_query)), lower(Haystack(row)))

Constrained(sel, row, name) == sel = "All" \/ Field(row, name) = sel

SatisfiesAll(row) ==
    /\ Constrained(sel_country, row, "country_label")
    /\ Constrained(sel_category, row, "tool_category")
    /\ Constrained(sel_evidence, row, "evidence_strength")
    /\ Constrained(sel_source_type, row, "source_type")
    /\ TextPredicate(row)

\* C1: the Filtered view is exactly the records of the Dataset, in their
\* order, that satisfy every active categorical constraint (exact equality)
\* and the free-text predicate.
C1_FilteredViewIsConjunction ==
    Loaded => f.rows = SelectSeq(df.rows, SatisfiesAll)

\* All four constraints and a query are active, and the view keeps some
\* records and drops others.
C1_Witness ==
    /\ Loaded
    /\ sel_country # "All" /\ sel_category # "All"
    /\ sel_evidence # "All" /\ sel_source_type # "All"
    /\ strip(text_query) # ""
    /\ f.rows # <<>>
    /\ Len(f.rows) < Len(df.rows)

\* C2: every record of the Filtered view is a record of the Dataset, and
\* the view has no more rows than the Dataset, whatever criteria were set.
C2_FilteredViewWithinDataset ==
    Loaded =>
        /\ \A i \in 1..Len(f.rows) : f.rows[i] \in Range(df.rows)
        /\ Len(f.rows) <= Len(df.rows)

\* A categorical constraint and a query have narrowed the view to some of
\* the records.
C2_Witness ==
    /\ Loaded
    /\ sel_country # "All"
    /\ strip(text_query) # ""
    /\ f.rows # <<>>
    /\ Len(f.rows) < Len(df.rows)

\* C3: with the four constraints at "All" and a query that is empty or
\* blank, the Filtered view is the Dataset.
C3_NoCriteriaIsIdentity ==
    ( /\ Loaded
      /\ sel_country = "All" /\ sel_category = "All"
      /\ sel_evidence = "All" /\ sel_source_type = "All"
      /\ strip(text_query) = "" )
    => f = df

\* A blank, non-empty query over a Dataset with records.
C3_Witness ==
    /\ Loaded
    /\ sel_country = "All" /\ sel_category = "All"
    /\ sel_evidence = "All" /\ sel_source_type = "All"
    /\ text_query # "" /\ strip(text_query) = ""
    /\ df.rows # <<>>
    /\ f = df

\* C4: a record kept by a non-empty query holds the lower-cased query
\* within the lower-cased value of one of its expected fields.
C4_NoMatchAcrossFields ==
    (Ran /\ strip(text_query) # "") =>
        \A i \in 1..Len(f.rows) :
            \E k \in 1..Len(EXPECTED_COLUMNS) :
                Contains(lower(strip(text_query)),
                         lower(Get(f, f.rows[i], EXPECTED_COLUMNS[k]).text))

\* The distinct non-empty tool names of the Filtered view.
ToolsPresent == Range(drop_empty(Column(f, "tool_name")))

\* C5 as stated: the tool distribution is no longer than N and no longer
\* than the number of distinct non-empty tool names of the view.
C5_AtMostDistinctNonEmpty ==
    Ran => /\ Len(tool_counts) <= top_n
           /\ Len(tool_counts) <= Cardinality(ToolsPresent)

\* C5 amended: no longer than N, and no longer than the number of distinct
\* non-empty tool names, plus one when unknown tools are included and the
\* view has a record without a tool name.
C5_AtMostDistinctPlusUnknown ==
    Ran => /\ Len(tool_counts) <= top_n
           /\ Len(tool_counts) <=
                 Cardinality(ToolsPresent)
                 + (IF include_unknown_tools /\ "" \in Range(Column(f, "tool_name"))
                    THEN 1 ELSE 0)

\* Unknown tools are included and take a place of their own.
C5_Witness ==
    /\ Ran
    /\ include_unknown_tools
    /\ "" \in Range(Column(f, "tool_name"))
    /\ ToolsPresent # {}
    /\ Len(tool_counts) = Cardinality(ToolsPresent) + 1

\* The records of the view under group key k.
GroupOf(k) == {i \in 1..Len(f.rows) : Get(f, f.rows[i], "country_label").text = k}

\* C6: under "Unique Tools" the value of every non-empty country is the
\* number of distinct non-empty tool names among its records, and the empty
\* country has no entry.
C6_UniqueToolsCountsNonEmpty ==
    (Ran /\ map_metric = "Unique Tools") =>
        /\ "" \notin DOMAIN map_df
        /\ \A k \in Range(Column(f, "country_label")) \ {""} :
              /\ k \in DOMAIN map_df
              /\ map_df[k] =
                    Cardinality({Get(f, f.rows[i], "tool_name").text : i \in GroupOf(k)} \ {""})

\* The scenario: the three records, filtered to France and nothing else.
Scenario ==
    /\ file = ScenarioFile
    /\ Ran
    /\ sel_country = "France" /\ sel_category = "All"
    /\ sel_evidence = "All" /\ sel_source_type = "All"
    /\ text_query = ""

\* C7 as stated: two records; [("PLEXOS", 1)] without unknown tools and
\* [("Unknown", 1), ("PLEXOS", 1)] with them.
C7_ScenarioUnknownFirst ==
    Scenario =>
        /\ Len(f.rows) = 2
        /\ ~ include_unknown_tools => tool_counts = << <<"PLEXOS", 1>> >>
        /\ include_unknown_tools => tool_counts = << <<"Unknown", 1>>, <<"PLEXOS", 1>> >>

\* C7 amended: two records; [("PLEXOS", 1)] without unknown tools and
\* [("PLEXOS", 1), ("Unknown", 1)] with them, PLEXOS being met first.
C7_ScenarioFirstMetFirst ==
    Scenario =>
        /\ Len(f.rows) = 2
        /\ ~ include_unknown_tools => tool_counts = << <<"PLEXOS", 1>> >>
        /\ include_unknown_tools => tool_counts = << <<"PLEXOS", 1>>, <<"Unknown", 1>> >>

\* The scenario with unknown tools included.
C7_Witness == Scenario /\ include_unknown_tools /\ Len(tool_counts) = 2

\* The cell of the source under the normalised name, "" for a missing one.
SourceText(r, name) ==
    LET cell == file.rows[r][CHOOSE i \in ColumnPositions(normalize_columns(file.columns), name) : TRUE]
    IN  IF cell.isna THEN "" ELSE cell.text

\* C8: whatever the columns of the file, the Dataset has the 14 expected
\* fields; a field the file lacks is "" in every row; every expected value
\* is text without surrounding blanks, never missing; and a field the file
\* has holds the file's value, trimmed.
C8_SchemaNormalised ==
    file.exists =>
        /\ Loaded
        /\ Len(df.rows) = Len(file.rows)
        /\ \A k \in 1..Len(EXPECTED_COLUMNS) :
              LET name == EXPECTED_COLUMNS[k]
              IN  /\ Cardinality(ColumnPositions(df.columns, name)) = 1
                  /\ \A r \in 1..Len(df.rows) :
                        LET cell == Get(df, df.rows[r], name)
                        IN  /\ ~ cell.isna
                            /\ strip(cell.text) = cell.text
                            /\ IF name \in Range(normalize_columns(file.columns))
                               THEN cell.text = strip(SourceText(r, name))
                               ELSE cell.text = ""

\* C9: the Filtered view of a query is the Filtered view of its upper-cased
\* form.
C9_QueryCaseInsensitive ==
    Loaded =>
        apply_filters(df, sel_country, sel_category, sel_evidence, sel_source_type,
                      upper(text_query)) = f

\* C10: over a Filtered view without records the run ends without an
\* exception, every aggregation is empty and the "no data" notes are shown.
C10_EmptyViewEmptyAggregations ==
    (Loaded /\ f.rows = <<>>) =>
        /\ error = ""
        /\ tool_counts = <<>>
        /\ DOMAIN map_df = {}
        /\ cat_counts = <<>>
        /\ ev_counts = <<>>
        /\ inst_counts = <<>>
        /\ {"tool_info", "map_info", "inst_info"} \subseteq rendered

\* C11: the Dataset is immutable after load.  After every run of the script,
\* whatever the filter criteria, the aggregations, the table derivation (URL
\* rewriting, link formatting) and the export did, the frame the name df holds
\* is the one load_csv returned: the same rows in the same order with the same
\* field values, and as many rows as the file has.
C11_DatasetImmutable ==
    Loaded =>
        /\ df = load_csv(file).frame
        /\ df_end = df
        /\ Len(df_end.rows) = Len(file.rows)

\* A run under a criterion that rewrote an address for the table and put a
\* link into it, next to an export that still holds the address as loaded.
C11_Witness ==
    /\ Ran
    /\ file = LinksFile
    /\ sel_country = "France"
    /\ chosen_cols = DISPLAY_COLS
    /\ Get(df_end, df_end.rows[1], "official_website").text = "rte-france.com"
    /\ Get(f, f.rows[1], "official_website").text = "rte-france.com"
    /\ Get(display, display.rows[1], "official_website").text = "https://rte-france.com"
    /\ Get(table_df, table_df.rows[1], "official_website").text
          = "[Website](https://rte-france.com)"
    /\ Get(table_df, table_df.rows[1], "source_link").text
          = "[Source](HTTPS://example.org/a)"
    /\ csv # ""

\* The responses among the received that json.loads takes, parsed, in order.
RECURSIVE ParsedOf(_)
ParsedOf(contents) ==
    IF contents = <<>> THEN <<>>
    ELSE IF json_loads(contents[1]).error = ""
         THEN <<json_loads(contents[1]).value>> \o ParsedOf(Tail(contents))
         ELSE ParsedOf(Tail(contents))

RECURSIVE Count(_, _)
Count(ch, s) == IF s = "" THEN 0 ELSE (IF At(s, 1) = ch THEN 1 ELSE 0) + Count(ch, Tail(s))

\* Every row has been asked about and answered.
AllProcessed == position = Len(operators) + 1 /\ Len(received) = Len(operators)

\* results holds the parsed responses, the unparsable ones skipped.
ResultsAreParsed == pc # "parse" => results = ParsedOf(received)

\* The file written holds a header line and one line for each parsed response.
SavedOneRowEach ==
    saved.exists => Count("\n", saved.text) = 1 + Len(ParsedOf(received))

\* C12: whatever the organisations and the responses, a response that does not
\* parse is skipped and is not fatal: the script never ends in an exception,
\* every organisation is processed before the output is written, and once the
\* script is done the output is written and holds the parsed responses, one
\* row each, in input order.
C12_BatchAlwaysCompletes ==
    /\ pc # "crashed"
    /\ ResultsAreParsed
    /\ pc \in {"saved", "done"} => AllProcessed
    /\ pc = "done" => saved.exists
    /\ SavedOneRowEach

====
